---------------------------- MODULE Spec2Model ----------------------------
(***************************************************************************)
(* LatexTextRenderer: the text-node scan, the dollar-delimiter extraction, *)
(* the fragment that replaces a text node, and the effect that runs the    *)
(* scan and attaches a MutationObserver to the container.                  *)
(*                                                                         *)
(* Strings are sequences of one-character strings.  Offsets into a text    *)
(* are 0-based, as in the source (m.index, last, text.slice).              *)
(***************************************************************************)
EXTENDS Integers, Sequences, FiniteSets, TLC

VARIABLES
    text,       \* SpecText: nodeValue of the text node handed to the scan
    isTarget,   \* SpecText: the node passed the pre-filter and was pushed on targets
    frag,       \* SpecText: children of the DocumentFragment built for the node
    tpc,        \* SpecText: "input" before the scan, "done" after it
    nodes,      \* the DOM: node id -> node record (ids are 1..Len(nodes))
    phase,      \* "init" (rendered, effect not yet run) | "mounted" | "unmounted"
                \* | "crashed" (an error was thrown out of the effect)
    observers,  \* ids of the MutationObservers currently observing the container
    cleanup,    \* id of the observer the stored effect cleanup disconnects (0: none)
    runs,       \* number of effect runs so far (= number of observers created)
    pending,    \* observer id -> its queue of undelivered MutationRecords
    inserts,    \* number of host insertions so far
    throws,     \* number of times katex.renderToString has thrown so far
    log,        \* history: one entry per text node replaced by a scan
    scans,      \* history: one entry per call of renderLatexInTextNodes
    data,       \* SpecChart: the argument of getBarChartMaxY
    maxY,       \* SpecChart: the value getBarChartMaxY returned
    cpc         \* SpecChart: "input" before the call, "done" after it

vars == <<text, isTarget, frag, tpc, nodes, phase, observers, cleanup, runs,
          pending, inserts, throws, log, scans, data, maxY, cpc>>

textVars == <<text, isTarget, frag, tpc>>
chartVars == <<data, maxY, cpc>>
domVars == <<nodes, phase, observers, cleanup, runs, pending, inserts, throws, log,
            scans>>

-----------------------------------------------------------------------------
(* Bounds of the model *)

\* longest text of SpecText
MaxLen == 8
\* host insertions in one behaviour
MaxInserts == 1
\* effect runs (mount + re-runs on a change of children) in one behaviour
MaxRuns == 2
\* times the typesetting function throws in one behaviour
MaxThrows == 2
\* typesetting calls of one scan or one callback whose outcome is chosen (the
\* calls after these return)
MaxOuts == MaxInserts + 1

\* rows of the bar chart's data
MaxRows == 2

Chars == {"$", "a", "b"}

Undef == <<"undefined">>

-----------------------------------------------------------------------------
(* Strings *)

\* text.slice(from, to), 0-based, end exclusive
Slice(s, from, to) == SubSeq(s, from + 1, to)

\* s[i] is a dollar sign (0-based i)
IsDollar(s, i) == i >= 0 /\ i < Len(s) /\ s[i + 1] = "$"

MinOf(S) == CHOOSE x \in S : \A y \in S : x <= y

RECURSIVE StringsUpTo(_)
StringsUpTo(n) ==
    IF n = 0 THEN {<<>>}
    ELSE LET shorter == StringsUpTo(n - 1)
         IN  shorter \cup {Append(s, c) : s \in {x \in shorter : Len(x) = n - 1}, c \in Chars}

-----------------------------------------------------------------------------
(* The two regular expressions *)

\* a pre-filter that looks for the double-dollar form only: /\$\$[\s\S]+?\$\$/
PrefilterTest_DoubleOnly(s) ==
    \E i \in 0..Len(s), body \in 1..Len(s) :
        /\ i + 4 + body <= Len(s)
        /\ IsDollar(s, i) /\ IsDollar(s, i + 1)
        /\ IsDollar(s, i + 2 + body) /\ IsDollar(s, i + 3 + body)

\* /\${1,2}[\s\S]+?\${1,2}/.test(s): one or two dollars, at least one character
\* of any kind, one or two dollars, anywhere in s
PrefilterTest(s) ==
    \E i \in 0..Len(s), open \in {1, 2}, body \in 1..Len(s), close \in {1, 2} :
        /\ i + open + body + close <= Len(s)
        /\ \A k \in 0..(open - 1) : IsDollar(s, i + k)
        /\ \A k \in 0..(close - 1) : IsDollar(s, i + open + body + k)

NoMatch == [index |-> -1, len |-> 0, g1 |-> Undef, g2 |-> Undef]

\* a double-dollar alternative whose body may be empty: \$\$([\s\S]*?)\$\$
BlockAt_EmptyBody(s, p) ==
    IF IsDollar(s, p) /\ IsDollar(s, p + 1)
    THEN LET closes == {q \in (p + 2)..Len(s) : IsDollar(s, q) /\ IsDollar(s, q + 1)}
         IN  IF closes = {} THEN NoMatch
             ELSE [index |-> p, len |-> MinOf(closes) + 2 - p,
                   g1 |-> Slice(s, p + 2, MinOf(closes)), g2 |-> Undef]
    ELSE NoMatch

\* first alternative at offset p: \$\$([\s\S]+?)\$\$  (lazy: the nearest closing $$)
BlockAt(s, p) ==
    IF IsDollar(s, p) /\ IsDollar(s, p + 1)
    THEN LET closes == {q \in (p + 3)..Len(s) : IsDollar(s, q) /\ IsDollar(s, q + 1)}
         IN  IF closes = {} THEN NoMatch
             ELSE LET q == MinOf(closes)
                  IN  [index |-> p, len |-> q + 2 - p,
                       g1 |-> Slice(s, p + 2, q), g2 |-> Undef]
    ELSE NoMatch

\* a single-dollar alternative that takes the end of the text for a closing $
InlineAt_EndCloses(s, p) ==
    IF IsDollar(s, p) /\ p + 1 < Len(s) /\ \A j \in (p + 1)..(Len(s) - 1) : ~IsDollar(s, j)
    THEN [index |-> p, len |-> Len(s) - p, g1 |-> Undef, g2 |-> Slice(s, p + 1, Len(s))]
    ELSE IF IsDollar(s, p)
    THEN LET closes == {q \in (p + 2)..Len(s) :
                            /\ IsDollar(s, q)
                            /\ \A j \in (p + 1)..(q - 1) : ~IsDollar(s, j)}
         IN  IF closes = {} THEN NoMatch
             ELSE [index |-> p, len |-> MinOf(closes) + 1 - p,
                   g1 |-> Undef, g2 |-> Slice(s, p + 1, MinOf(closes))]
    ELSE NoMatch

\* a single-dollar alternative whose body takes no white space: \$([^$\s]+?)\$
InlineAt_NoSpace(s, p) ==
    IF IsDollar(s, p)
    THEN LET closes == {q \in (p + 2)..Len(s) :
                            /\ IsDollar(s, q)
                            /\ \A j \in (p + 1)..(q - 1) : s[j + 1] \notin {"$", " ", "\n"}}
         IN  IF closes = {} THEN NoMatch
             ELSE [index |-> p, len |-> MinOf(closes) + 1 - p,
                   g1 |-> Undef, g2 |-> Slice(s, p + 1, MinOf(closes))]
    ELSE NoMatch

\* the single-dollar alternative without its quantifier: \$([^$])\$
InlineAt_OneChar(s, p) ==
    IF IsDollar(s, p) /\ ~IsDollar(s, p + 1) /\ IsDollar(s, p + 2)
    THEN [index |-> p, len |-> 3, g1 |-> Undef, g2 |-> Slice(s, p + 1, p + 2)]
    ELSE NoMatch

\* second alternative at offset p: \$([^$]+?)\$
InlineAt(s, p) ==
    IF IsDollar(s, p)
    THEN LET closes == {q \in (p + 2)..Len(s) :
                            /\ IsDollar(s, q)
                            /\ \A j \in (p + 1)..(q - 1) : ~IsDollar(s, j)}
         IN  IF closes = {} THEN NoMatch
             ELSE LET q == MinOf(closes)
                  IN  [index |-> p, len |-> q + 1 - p,
                       g1 |-> Undef, g2 |-> Slice(s, p + 1, q)]
    ELSE NoMatch

\* the alternation without its double-dollar alternative
MatchAt_InlineOnly(s, p) == InlineAt(s, p)

\* the alternation at offset p: the first alternative that matches is taken
FirstAlternative(block, inline) == IF block # NoMatch THEN block ELSE inline

MatchAt(s, p) == FirstAlternative(BlockAt(s, p), InlineAt(s, p))

\* a search that reports the last offset at which the alternation matches
Leftmost_Rightmost(found) ==
    LET starts == {p \in DOMAIN found : found[p] # NoMatch}
    IN  IF starts = {} THEN NoMatch
        ELSE found[CHOOSE x \in starts : \A y \in starts : y <= x]

\* regex.exec(text) with regex.lastIndex = from: the leftmost offset >= from at
\* which the alternation matches, or null
Leftmost(found) ==
    LET starts == {p \in DOMAIN found : found[p] # NoMatch}
    IN  IF starts = {} THEN NoMatch ELSE found[MinOf(starts)]

Exec(s, from) == Leftmost([p \in from..Len(s) |-> MatchAt(s, p)])

\* the mode taken from the wrong group: !!m[2]
IsBlock_Group2(m) == m.g2 # Undef /\ m.g2 # <<>>

\* const isBlock = !!m[1]: an unmatched group is undefined, a string is truthy
\* when it is not empty
IsBlock(m) == m.g1 # Undef /\ m.g1 # <<>>

\* const expr = isBlock ? m[1] : m[2]
Expr(m) == IF IsBlock(m) THEN m.g1 ELSE m.g2

-----------------------------------------------------------------------------
(* The fragment built for one target text node *)

\* A child of the fragment.  kind "text": a text node holding value.
\* kind "span": the span of a match; ok tells whether katex.renderToString
\* returned (the span then holds its markup for expr in the mode isBlock) or
\* threw (the span then holds the text node `value`).  index and len are the
\* match's m.index and m[0].length, kept for the properties.
TextPiece(v) ==
    [kind |-> "text", value |-> v, ok |-> TRUE, isBlock |-> FALSE,
     expr |-> <<>>, index |-> -1, len |-> 0]

\* the fallback text with single dollars in both modes
FallbackText_Inline(isBlock, expr) == <<"$">> \o expr \o <<"$">>

\* span.textContent = isBlock ? `$$${expr}$$` : `$${expr}$`
FallbackText(isBlock, expr) ==
    IF isBlock THEN <<"$", "$">> \o expr \o <<"$", "$">>
    ELSE <<"$">> \o expr \o <<"$">>

SpanPiece(m, ok) ==
    [kind |-> "span",
     value |-> IF ok THEN <<>> ELSE FallbackText(IsBlock(m), Expr(m)),
     ok |-> ok, isBlock |-> IsBlock(m), expr |-> Expr(m),
     index |-> m.index, len |-> m.len]

\* a loop that appends no text before a match
LeadingText_Dropped(s, last, m) == <<>>

\* if (m.index > last) frag.appendChild(createTextNode(text.slice(last, m.index)))
LeadingText(s, last, m) ==
    IF m.index > last THEN <<TextPiece(Slice(s, last, m.index))>> ELSE <<>>

\* the fragment without the text after the last match
TrailingText_Dropped(s, last) == <<>>

\* a trailing text that starts one character late: text.slice(last + 1)
TrailingText_SkipsOne(s, last) ==
    IF last < Len(s) THEN <<TextPiece(Slice(s, last + 1, Len(s)))>> ELSE <<>>

\* if (last < text.length) frag.appendChild(createTextNode(text.slice(last)))
TrailingText(s, last) ==
    IF last < Len(s) THEN <<TextPiece(Slice(s, last, Len(s)))>> ELSE <<>>

\* outcome of the n-th typesetting call of a scan
Outcome(outs, n) == IF n \in DOMAIN outs THEN outs[n] ELSE TRUE

\* while ((m = regex.exec(text))) { ... } and the trailing text; n counts the
\* typesetting calls made before this one in the same scan
RECURSIVE ExecLoop(_, _, _, _)
RECURSIVE LoopBody(_, _, _, _, _)
\* a loop that a throwing typesetting call ends: the rest of the text is literal
LoopBody_StopsOnThrow(s, last, n, outs, m) ==
    IF m = NoMatch THEN TrailingText(s, last)
    ELSE LeadingText(s, last, m)
         \o <<SpanPiece(m, Outcome(outs, n + 1))>>
         \o (IF Outcome(outs, n + 1)
             THEN ExecLoop(s, m.index + m.len, n + 1, outs)
             ELSE TrailingText(s, m.index + m.len))

LoopBody(s, last, n, outs, m) ==
    IF m = NoMatch THEN TrailingText(s, last)
    ELSE LeadingText(s, last, m)
         \o <<SpanPiece(m, Outcome(outs, n + 1))>>
         \o ExecLoop(s, m.index + m.len, n + 1, outs)
ExecLoop(s, last, n, outs) == LoopBody(s, last, n, outs, Exec(s, last))

BuildFrag(s, n, outs) == ExecLoop(s, 0, n, outs)

\* number of matches the extraction loop finds in s
RECURSIVE CountMatches(_, _)
RECURSIVE CountFrom(_, _)
CountFrom(s, m) == IF m = NoMatch THEN 0 ELSE 1 + CountMatches(s, m.index + m.len)
CountMatches(s, from) == CountFrom(s, Exec(s, from))

NumMatches(s) == CountMatches(s, 0)

Spans(pieces) == SelectSeq(pieces, LAMBDA p : p.kind = "span")

NumThrown(pieces) == Len(SelectSeq(pieces, LAMBDA p : p.kind = "span" /\ ~p.ok))

\* choices of typesetting outcomes, at most `budget` of them throwing
OutChoices(budget) ==
    {o \in [1..MaxOuts -> BOOLEAN] : Cardinality({i \in 1..MaxOuts : ~o[i]}) <= budget}

\* outs names no outcome for a call that is not made
Canonical(outs, calls) == \A i \in 1..MaxOuts : i > calls => outs[i]

ThrownIn(outs) == Cardinality({i \in 1..MaxOuts : ~outs[i]})

-----------------------------------------------------------------------------
(* KeyMetrics: the maximum of the bar chart's Y axis *)

\* a value of `data` that is not an array
NotArray == [isArray |-> FALSE, rows |-> <<>>]

\* the array of the rows d
ArrayOf(d) == [isArray |-> TRUE, rows |-> d]

\* a field that a row does not have (undefined)
Nullish == -1

\* the values of the three fields of a row: between them, both sides of every
\* comparison of getBarChartMaxY
PerCustomerValues == {Nullish, 0, 10, 11, 20, 21}
MonthlyValues == {Nullish, 50, 51, 100, 101, 200}
GrowthValues == {Nullish, 201, 500, 501, 1000, 1001, 2000, 2001, 3500}

Rows ==
    [revenuePerCustomer : PerCustomerValues, monthlyRevenue : MonthlyValues,
     revenueGrowth : GrowthValues]

RECURSIVE RowsUpTo(_)
RowsUpTo(n) ==
    IF n = 0 THEN {<<>>}
    ELSE LET shorter == RowsUpTo(n - 1)
         IN  shorter \cup {Append(d, r) : d \in {x \in shorter : Len(x) = n - 1}, r \in Rows}

\* x ?? 0
OrZero(x) == IF x = Nullish THEN 0 ELSE x

\* Math.max of two numbers
MathMax(a, b) == IF a >= b THEN a ELSE b

\* the body of data.forEach for one row
RowMax(max, row) ==
    MathMax(MathMax(MathMax(max, OrZero(row.revenuePerCustomer)),
                    OrZero(row.monthlyRevenue)),
            OrZero(row.revenueGrowth))

\* let max = 0; data.forEach(...)
RECURSIVE ForEachMax(_, _, _)
ForEachMax(d, i, max) ==
    IF i > Len(d) THEN max ELSE ForEachMax(d, i + 1, RowMax(max, d[i]))

\* the ladder with strict comparisons
NiceValue_Strict(max) ==
    IF max < 10 THEN 10
    ELSE IF max < 20 THEN 20
    ELSE IF max < 50 THEN 50
    ELSE IF max < 100 THEN 100
    ELSE IF max < 200 THEN 200
    ELSE IF max < 500 THEN 500
    ELSE IF max < 1000 THEN 1000
    ELSE ((max + 999) \div 1000) * 1000

\* the ladder of returns, and Math.ceil(max / 1000) * 1000
NiceValue(max) ==
    IF max <= 10 THEN 10
    ELSE IF max <= 20 THEN 20
    ELSE IF max <= 50 THEN 50
    ELSE IF max <= 100 THEN 100
    ELSE IF max <= 200 THEN 200
    ELSE IF max <= 500 THEN 500
    ELSE IF max <= 1000 THEN 1000
    ELSE ((max + 999) \div 1000) * 1000

getBarChartMaxY(d) ==
    IF ~d.isArray \/ Len(d.rows) = 0 THEN 100
    ELSE NiceValue(ForEachMax(d.rows, 1, 0))

ChartIdle ==
    /\ data = NotArray
    /\ maxY = 0
    /\ cpc = "idle"

-----------------------------------------------------------------------------
(* The DOM *)

Root == 1

\* kinds of element the host renders or inserts
Kinds == {"plain", "tiptap", "editable", "script", "style"}

\* texts of the host's text nodes: a text the pre-filter accepts but the
\* extraction does not match, literal text followed by an inline expression,
\* a block expression, and two inline expressions in a row
DomTexts ==
    {<<"$", "$", "$">>, <<"a", "$", "b", "$">>, <<"$", "$", "a", "$", "$">>,
     <<"$", "a", "$", "$", "b", "$">>}

\* the text React rendered, and the kinds of element the host inserts later
InitTexts == {<<"a", "$", "b", "$">>}
InsertKinds == {"plain"}

TagOf(k) == CASE k = "script" -> "SCRIPT" [] k = "style" -> "STYLE" [] OTHER -> "DIV"

\* an element node; cls: its class list holds tiptap-text-editor; ce: its
\* contenteditable attribute is "true"; rendered: it holds katex markup
ElementNode(k, parent, kids, by, seenBy) ==
    [kind |-> "elem", tag |-> TagOf(k), cls |-> (k = "tiptap"), ce |-> (k = "editable"),
     parent |-> parent, kids |-> kids, value |-> <<>>, rendered |-> FALSE,
     isBlock |-> FALSE, expr |-> <<>>, by |-> by, seenBy |-> seenBy]

TextNode(v, parent, by, seenBy) ==
    [kind |-> "text", tag |-> "#text", cls |-> FALSE, ce |-> FALSE,
     parent |-> parent, kids |-> <<>>, value |-> v, rendered |-> FALSE,
     isBlock |-> FALSE, expr |-> <<>>, by |-> by, seenBy |-> seenBy]

\* const span = document.createElement("span"), filled by span.innerHTML = ...
\* (rendered) or by span.textContent = ... (one text child)
SpanNode(p, parent, kids) ==
    [kind |-> "elem", tag |-> "SPAN", cls |-> FALSE, ce |-> FALSE,
     parent |-> parent, kids |-> kids, value |-> <<>>, rendered |-> p.ok,
     isBlock |-> p.isBlock, expr |-> p.expr, by |-> "component", seenBy |-> {}]

\* a callback that scans no added node
IsElement_Never(dom, id) == FALSE

\* added instanceof Element
IsElement(dom, id) == dom[id].kind = "elem"

\* (cur as HTMLElement).closest?.(".tiptap-text-editor")
RECURSIVE Closest(_, _)
Closest(dom, el) ==
    IF el = 0 THEN FALSE
    ELSE IF dom[el].cls THEN TRUE
    ELSE Closest(dom, dom[el].parent)

\* the ignore predicate applied to the parent alone, without the walk up
shouldIgnore_ParentOnly(dom, el) ==
    /\ el # 0
    /\ \/ dom[el].cls
       \/ dom[el].ce
       \/ dom[el].tag = "SCRIPT"
       \/ dom[el].tag = "STYLE"

RECURSIVE shouldIgnore(_, _)
shouldIgnore(dom, el) ==
    IF el = 0 THEN FALSE
    ELSE IF \/ Closest(dom, el)
            \/ dom[el].ce
            \/ dom[el].tag = "SCRIPT"
            \/ dom[el].tag = "STYLE"
         THEN TRUE
         ELSE shouldIgnore(dom, dom[el].parent)

\* document.createTreeWalker(container, NodeFilter.SHOW_TEXT): the text nodes
\* below container, in document order
RECURSIVE TextNodesUnder(_, _)
RECURSIVE TextNodesOfKids(_, _, _)
\* a walk that stops at the children of the container
TextNodesUnder_ChildrenOnly(dom, container) ==
    SelectSeq(dom[container].kids, LAMBDA x : dom[x].kind = "text")

TextNodesOfKids(dom, kids, i) ==
    IF i > Len(kids) THEN <<>>
    ELSE (IF dom[kids[i]].kind = "text" THEN <<kids[i]>> ELSE TextNodesUnder(dom, kids[i]))
         \o TextNodesOfKids(dom, kids, i + 1)
TextNodesUnder(dom, container) == TextNodesOfKids(dom, dom[container].kids, 1)

\* the three tests of the collecting loop
IsTargetNode(dom, t) ==
    /\ dom[t].value # <<>>
    /\ ~shouldIgnore(dom, dom[t].parent)
    /\ PrefilterTest(dom[t].value)

\* targets collected by a walk over the whole container, whatever the root given
Targets_Container(dom, container) ==
    SelectSeq(TextNodesUnder(dom, Root), LAMBDA t : IsTargetNode(dom, t))

Targets(dom, container) ==
    SelectSeq(TextNodesUnder(dom, container), LAMBDA t : IsTargetNode(dom, t))

\* the nodes of a fragment, appended to the node table with parent `parent`;
\* a fallback span owns one text node
RECURSIVE Materialize(_, _, _, _, _)
Materialize(dom, ids, pieces, i, parent) ==
    IF i > Len(pieces) THEN [dom |-> dom, ids |-> ids]
    ELSE LET p == pieces[i]
             id == Len(dom) + 1
         IN  IF p.kind = "text"
             THEN Materialize(Append(dom, TextNode(p.value, parent, "component", {})),
                              Append(ids, id), pieces, i + 1, parent)
             ELSE IF p.ok
             THEN Materialize(Append(dom, SpanNode(p, parent, <<>>)),
                              Append(ids, id), pieces, i + 1, parent)
             ELSE Materialize(Append(Append(dom, SpanNode(p, parent, <<id + 1>>)),
                                     TextNode(p.value, id, "component", {})),
                              Append(ids, id), pieces, i + 1, parent)

IndexOf(seq, x) == CHOOSE i \in 1..Len(seq) : seq[i] = x

\* the fragment appended to the parent: parent.appendChild(frag)
ReplaceChild_Appends(kids, t, ids) == SelectSeq(kids, LAMBDA x : x # t) \o ids

\* parent.insertBefore(frag, textNode); parent.removeChild(textNode)
ReplaceChild(kids, t, ids) ==
    LET i == IndexOf(kids, t)
    IN  SubSeq(kids, 1, i - 1) \o ids \o SubSeq(kids, i + 1, Len(kids))

\* a MutationRecord of type childList; depth: 0 for a host write, else one
\* more than the record whose handling made the write
Record(target, added, removed, depth) ==
    [target |-> target, added |-> added, removed |-> removed, depth |-> depth]

\* parent.insertBefore(frag, textNode); parent.removeChild(textNode), the two
\* records they produce, and the history entry.
\* st = [dom, recs, n, log]: the DOM, the records the writes produced, the
\* typesetting calls made, the history.  ctx = [src, root, depth].
Replaced(st, t, ctx, pieces, made, kids) ==
    [dom |-> [made.dom EXCEPT ![st.dom[t].parent].kids = kids, ![t].parent = 0],
     recs |-> st.recs \o <<Record(st.dom[t].parent, made.ids, <<>>, ctx.depth),
                           Record(st.dom[t].parent, <<>>, <<t>>, ctx.depth)>>,
     n |-> st.n + Len(Spans(pieces)),
     log |-> Append(st.log,
               [node |-> t, parent |-> st.dom[t].parent, text |-> st.dom[t].value,
                pieces |-> pieces, ids |-> made.ids, root |-> ctx.root,
                src |-> ctx.src, depth |-> ctx.depth,
                kidsBefore |-> st.dom[st.dom[t].parent].kids, kidsAfter |-> kids]),
     scans |-> st.scans]

InsertFragment(st, t, ctx, pieces, made) ==
    Replaced(st, t, ctx, pieces, made,
             ReplaceChild(st.dom[st.dom[t].parent].kids, t, made.ids))

\* a replacement that empties a target it finds without a parent
ReplaceIfParent_ClearsDetached(st, t, ctx, pieces) ==
    IF st.dom[t].parent = 0
    THEN [st EXCEPT !.n = st.n + Len(Spans(pieces)), !.dom[t].value = <<>>]
    ELSE InsertFragment(st, t, ctx, pieces,
                        Materialize(st.dom, <<>>, pieces, 1, st.dom[t].parent))

\* const parent = textNode.parentNode; if (parent) { ... }
ReplaceIfParent(st, t, ctx, pieces) ==
    IF st.dom[t].parent = 0 THEN [st EXCEPT !.n = st.n + Len(Spans(pieces))]
    ELSE InsertFragment(st, t, ctx, pieces,
                        Materialize(st.dom, <<>>, pieces, 1, st.dom[t].parent))

\* the body of `for (const textNode of targets)` for one target
ReplaceTarget(st, t, outs, ctx) ==
    ReplaceIfParent(st, t, ctx, BuildFrag(st.dom[t].value, st.n, outs))

RECURSIVE ReplaceAll(_, _, _, _, _)
ReplaceAll(st, targets, i, outs, ctx) ==
    IF i > Len(targets) THEN st
    ELSE ReplaceAll(ReplaceTarget(st, targets[i], outs, ctx), targets, i + 1, outs, ctx)

\* one call of the routine, as the history keeps it
Call(container, ctx) == [root |-> container, src |-> ctx.src, depth |-> ctx.depth]

renderLatexInTextNodes(st, container, outs, ctx) ==
    ReplaceAll([st EXCEPT !.scans = Append(@, Call(container, ctx))],
               Targets(st.dom, container), 1, outs,
               [ctx EXCEPT !.root = container])

-----------------------------------------------------------------------------
(* The effect, the observer and the host *)

StartScan(dom, history) ==
    [dom |-> dom, recs |-> <<>>, n |-> 0, log |-> history, scans |-> <<>>]

\* records queued to every observer that observes the container
Enqueue(queues, obs, recs) ==
    [o \in DOMAIN queues |-> IF o \in obs THEN queues[o] \o recs ELSE queues[o]]

\* a cleanup that leaves the observer attached
Disconnect_Never(obs, c) == obs

\* a cleanup that disconnects only observers created before the one it holds
Disconnect_Older(obs, c) == {o \in obs : o >= c}

\* return () => mo.disconnect(): the observer stops observing and its queue
\* of records is emptied
Disconnect(obs, c) == obs \ {c}

ClearQueue(queues, c) ==
    [o \in DOMAIN queues |-> IF o = c THEN <<>> ELSE queues[o]]

\* the effect body: renderLatexInTextNodes(root); mo = new MutationObserver(..);
\* mo.observe(root, {childList: true, subtree: true}); return the cleanup
Observe(obs, queues, outs, st, mo) ==
    /\ Canonical(outs, st.n)
    /\ nodes' = st.dom
    /\ log' = st.log
    /\ scans' = scans \o st.scans
    /\ throws' = throws + ThrownIn(outs)
    /\ runs' = mo
    /\ observers' = obs \cup {mo}
    /\ pending' = Append(Enqueue(queues, obs, st.recs), <<>>)
    /\ cleanup' = mo

\* an effect that attaches the observer without scanning the container
EffectBody_NoScan(obs, queues, outs) ==
    Observe(obs, queues, outs, StartScan(nodes, log), runs + 1)

EffectBody(obs, queues, outs) ==
    Observe(obs, queues, outs,
            renderLatexInTextNodes(StartScan(nodes, log), Root, outs,
                                   [src |-> "effect", root |-> Root, depth |-> 1]),
            runs + 1)

\* the effect body when new MutationObserver(..) or mo.observe(..) throws:
\* the scan of line 77 has run, nothing catches the error, the effect returns
\* no cleanup and the error leaves the component
SetupThrown(obs, queues, outs, st) ==
    /\ Canonical(outs, st.n)
    /\ nodes' = st.dom
    /\ log' = st.log
    /\ scans' = scans \o st.scans
    /\ throws' = throws + ThrownIn(outs)
    /\ observers' = obs
    /\ pending' = Enqueue(queues, obs, st.recs)
    /\ cleanup' = 0
    /\ phase' = "crashed"

EffectBodyThrows(obs, queues, outs) ==
    SetupThrown(obs, queues, outs,
                renderLatexInTextNodes(StartScan(nodes, log), Root, outs,
                                       [src |-> "effect", root |-> Root, depth |-> 1]))

\* first run of the effect, with a failing set-up of the observation
MountSetupThrows ==
    /\ phase = "init"
    /\ \E outs \in OutChoices(MaxThrows - throws) : EffectBodyThrows(observers, pending, outs)
    /\ UNCHANGED <<runs, inserts, textVars, chartVars>>

\* `children` changed identity: the cleanup of the previous run, then the
\* effect, with a failing set-up of the observation
ChildrenChangeSetupThrows ==
    /\ phase = "mounted"
    /\ runs < MaxRuns
    /\ \E outs \in OutChoices(MaxThrows - throws) :
          EffectBodyThrows(Disconnect(observers, cleanup), ClearQueue(pending, cleanup), outs)
    /\ UNCHANGED <<runs, inserts, textVars, chartVars>>

\* first run of the effect, after the first commit
Mount ==
    /\ phase = "init"
    /\ phase' = "mounted"
    /\ \E outs \in OutChoices(MaxThrows - throws) : EffectBody(observers, pending, outs)
    /\ UNCHANGED <<inserts, textVars, chartVars>>

\* `children` changed identity: the cleanup of the previous run, then the effect
ChildrenChange ==
    /\ phase = "mounted"
    /\ runs < MaxRuns
    /\ \E outs \in OutChoices(MaxThrows - throws) :
          EffectBody(Disconnect(observers, cleanup), ClearQueue(pending, cleanup), outs)
    /\ UNCHANGED <<phase, inserts, textVars, chartVars>>

\* the component is unmounted: the cleanup of the last run
Unmount ==
    /\ phase = "mounted"
    /\ phase' = "unmounted"
    /\ observers' = Disconnect(observers, cleanup)
    /\ pending' = ClearQueue(pending, cleanup)
    /\ cleanup' = 0
    /\ UNCHANGED <<nodes, runs, inserts, throws, log, scans, textVars, chartVars>>

\* the loop over mu.addedNodes taken from its end
RECURSIVE ScanAdded_Backwards(_, _, _, _, _)
ScanAdded_Backwards(st, added, i, outs, depth) ==
    IF i > Len(added) THEN st
    ELSE ScanAdded_Backwards(
             IF IsElement(st.dom, added[Len(added) + 1 - i])
             THEN renderLatexInTextNodes(st, added[Len(added) + 1 - i], outs,
                      [src |-> "callback", root |-> added[Len(added) + 1 - i],
                       depth |-> depth])
             ELSE st,
             added, i + 1, outs, depth)

\* for (const added of Array.from(mu.addedNodes))
\*   if (added instanceof Element) renderLatexInTextNodes(added)
RECURSIVE ScanAdded(_, _, _, _, _)
ScanAdded(st, added, i, outs, depth) ==
    IF i > Len(added) THEN st
    ELSE ScanAdded(IF IsElement(st.dom, added[i])
                   THEN renderLatexInTextNodes(st, added[i], outs,
                            [src |-> "callback", root |-> added[i], depth |-> depth])
                   ELSE st,
                   added, i + 1, outs, depth)

\* a callback that scans the parent the nodes were added to: mu.target
RECURSIVE ScanBatch_Targets(_, _, _, _)
ScanBatch_Targets(st, batch, i, outs) ==
    IF i > Len(batch) THEN st
    ELSE ScanBatch_Targets(
             IF batch[i].added # <<>>
             THEN ScanAdded(st, <<batch[i].target>>, 1, outs, batch[i].depth + 1)
             ELSE st,
             batch, i + 1, outs)

\* for (const mu of mutations)
RECURSIVE ScanBatch(_, _, _, _)
ScanBatch(st, batch, i, outs) ==
    IF i > Len(batch) THEN st
    ELSE ScanBatch(ScanAdded(st, batch[i].added, 1, outs, batch[i].depth + 1),
                   batch, i + 1, outs)

\* the state after the callback of observer o: its queue was taken, and the
\* records of its own writes are queued to the observers of the container
Delivered(o, outs, st) ==
    /\ Canonical(outs, st.n)
    /\ nodes' = st.dom
    /\ log' = st.log
    /\ scans' = scans \o st.scans
    /\ throws' = throws + ThrownIn(outs)
    /\ pending' = Enqueue([pending EXCEPT ![o] = <<>>], observers, st.recs)

\* the MutationObserver callback of observer o, given all its queued records
Deliver(o) ==
    /\ o \in DOMAIN pending
    /\ pending[o] # <<>>
    /\ \E outs \in OutChoices(MaxThrows - throws) :
          Delivered(o, outs, ScanBatch(StartScan(nodes, log), pending[o], 1, outs))
    /\ UNCHANGED <<phase, observers, cleanup, runs, inserts, textVars, chartVars>>

\* elements of the host's content, the container included
HostElements == {e \in 1..Len(nodes) : nodes[e].kind = "elem" /\ nodes[e].by = "host"}

\* the host appends an element holding one text node
HostInsertElement ==
    /\ inserts < MaxInserts
    /\ phase # "init"
    /\ \E p \in HostElements, k \in InsertKinds, s \in DomTexts :
          LET e == Len(nodes) + 1
          IN  /\ nodes' = [Append(Append(nodes,
                                ElementNode(k, p, <<e + 1>>, "host", observers)),
                                TextNode(s, e, "host", observers))
                           EXCEPT ![p].kids = Append(@, e)]
              /\ pending' = Enqueue(pending, observers, <<Record(p, <<e>>, <<>>, 0)>>)
    /\ inserts' = inserts + 1
    /\ UNCHANGED <<phase, observers, cleanup, runs, throws, log, scans, textVars, chartVars>>

\* the host appends a bare text node
HostInsertText ==
    /\ inserts < MaxInserts
    /\ phase # "init"
    /\ \E p \in HostElements, s \in DomTexts :
          LET t == Len(nodes) + 1
          IN  /\ nodes' = [Append(nodes, TextNode(s, p, "host", observers))
                           EXCEPT ![p].kids = Append(@, t)]
              /\ pending' = Enqueue(pending, observers, <<Record(p, <<t>>, <<>>, 0)>>)
    /\ inserts' = inserts + 1
    /\ UNCHANGED <<phase, observers, cleanup, runs, throws, log, scans, textVars, chartVars>>

\* the content React rendered into the container: one element holding one text
InitialDom(k, s) ==
    <<ElementNode("plain", 0, <<2>>, "host", {}),
      ElementNode(k, Root, <<3>>, "host", {}),
      TextNode(s, 2, "host", {})>>

InitDom(k, s) ==
    /\ nodes = InitialDom(k, s)
    /\ phase = "init"
    /\ observers = {}
    /\ cleanup = 0
    /\ runs = 0
    /\ pending = <<>>
    /\ inserts = 0
    /\ throws = 0
    /\ log = <<>>
    /\ scans = <<>>

Init ==
    /\ \E k \in Kinds, s \in InitTexts : InitDom(k, s)
    /\ text = <<>>
    /\ isTarget = FALSE
    /\ frag = <<>>
    /\ tpc = "idle"
    /\ ChartIdle

Next ==
    \/ Mount
    \/ ChildrenChange
    \/ MountSetupThrows
    \/ ChildrenChangeSetupThrows
    \/ Unmount
    \/ \E o \in 1..runs : Deliver(o)
    \/ HostInsertElement
    \/ HostInsertText

Spec == Init /\ [][Next]_vars

\* observer o has records queued: its callback is due (a microtask)
Queued(o) == o \in DOMAIN pending /\ pending[o] # <<>>

\* The callback of an observer with queued records is eventually run: weak
\* fairness of Deliver(o), written with its enabling condition Queued(o) in
\* place of ENABLED <<Deliver(o)>>_vars (Deliver(o) empties or rewrites a
\* non-empty queue, so it is enabled exactly when Queued(o)).
DeliverFair(o) == []<>(~Queued(o)) \/ []<><<Deliver(o)>>_vars

FairSpec == Spec /\ \A o \in 1..MaxRuns : DeliverFair(o)

-----------------------------------------------------------------------------
(* The first scan of a container with three texts, while a synchronous      *)
(* listener of the host (a DOM mutation event handler, run inside           *)
(* parent.insertBefore) removes nodes that are still waiting in `targets`   *)

\* the content React rendered: an element holding a text, a text of the
\* container itself, an element holding a text, an empty element
ThreeTexts(k, s1, s2, s3) ==
    <<ElementNode("plain", 0, <<2, 7, 4, 6>>, "host", {}),
      ElementNode(k, Root, <<3>>, "host", {}),
      TextNode(s1, 2, "host", {}),
      ElementNode("plain", Root, <<5>>, "host", {}),
      TextNode(s3, 4, "host", {}),
      ElementNode("plain", Root, <<>>, "host", {}),
      TextNode(s2, Root, "host", {})>>

InitDetach ==
    /\ \E k \in Kinds, s1 \in DomTexts, s2 \in DomTexts, s3 \in DomTexts :
          nodes = ThreeTexts(k, s1, s2, s3)
    /\ phase = "init"
    /\ observers = {}
    /\ cleanup = 0
    /\ runs = 0
    /\ pending = <<>>
    /\ inserts = 0
    /\ throws = 0
    /\ log = <<>>
    /\ scans = <<>>
    /\ text = <<>>
    /\ isTarget = FALSE
    /\ frag = <<>>
    /\ tpc = "idle"
    /\ ChartIdle

\* the host's listener removes the nodes of D from their parents
RECURSIVE DetachAll(_, _)
DetachAll(dom, D) ==
    IF D = {} THEN dom
    ELSE LET d == CHOOSE x \in D : TRUE
         IN  DetachAll([dom EXCEPT ![dom[d].parent].kids = SelectSeq(@, LAMBDA x : x # d),
                                   ![d].parent = 0],
                       D \ {d})

\* the listener runs at the first write of the scan
AfterWrite(st, i, D) == IF i = 1 THEN [st EXCEPT !.dom = DetachAll(st.dom, D)] ELSE st

\* for (const textNode of targets) { ... }, with the listener in between
RECURSIVE ReplaceAllDetaching(_, _, _, _, _, _)
ReplaceAllDetaching(st, targets, i, outs, ctx, D) ==
    IF i > Len(targets) THEN st
    ELSE ReplaceAllDetaching(AfterWrite(ReplaceTarget(st, targets[i], outs, ctx), i, D),
                             targets, i + 1, outs, ctx, D)

\* the targets still waiting after the first one
Waiting(targets) == {targets[i] : i \in 2..Len(targets)}

ScanDetaching(targets, outs, D) ==
    Observe(observers, pending, outs,
            ReplaceAllDetaching(
                [StartScan(nodes, log) EXCEPT
                    !.scans = <<Call(Root, [src |-> "effect", root |-> Root, depth |-> 1])>>],
                targets, 1, outs, [src |-> "effect", root |-> Root, depth |-> 1], D),
            runs + 1)

\* first run of the effect, with the listener removing some waiting targets
MountDetaching ==
    /\ phase = "init"
    /\ phase' = "mounted"
    /\ \E outs \in OutChoices(MaxThrows - throws) :
          \E D \in SUBSET Waiting(Targets(nodes, Root)) :
              ScanDetaching(Targets(nodes, Root), outs, D)
    /\ UNCHANGED <<inserts, textVars, chartVars>>

SpecDetach == InitDetach /\ [][MountDetaching]_vars

-----------------------------------------------------------------------------
(* getBarChartMaxY over every data of up to MaxRows rows *)

InitChart ==
    /\ data \in {NotArray} \cup {ArrayOf(d) : d \in RowsUpTo(MaxRows)}
    /\ maxY = 0
    /\ cpc = "input"
    /\ InitDom("plain", <<"a", "$", "b", "$">>)
    /\ text = <<>>
    /\ isTarget = FALSE
    /\ frag = <<>>
    /\ tpc = "idle"

CallGetBarChartMaxY ==
    /\ cpc = "input"
    /\ cpc' = "done"
    /\ maxY' = getBarChartMaxY(data)
    /\ UNCHANGED <<data, textVars, domVars>>

SpecChart == InitChart /\ [][CallGetBarChartMaxY]_vars

-----------------------------------------------------------------------------
(* The scan of one text node, over every text up to MaxLen *)

Texts == StringsUpTo(MaxLen)

\* two texts of slide content, with their own characters
BlockThenInline ==
    <<"$", "$", "a", "$", "$", " ", "a", "n", "d", " ", "$", "b", "$">>

RevenueText ==
    <<"R", "e", "v", "e", "n", "u", "e", " ", "g", "r", "e", "w", " ", "b", "y", " ",
      "$", "1", "0", "\\", "%", "$",
      " ", "t", "h", "i", "s", " ", "q", "u", "a", "r", "t", "e", "r">>

\* prose with two currency amounts
CostText ==
    <<"c", "o", "s", "t", " ", "$", "5", " ", "a", "n", "d", " ", "$", "1", "0">>

\* an expression over two lines
TwoLines == <<"$", "a", "\n", "b", "$">>

ScenarioTexts == {BlockThenInline, RevenueText, CostText, TwoLines}

InitText ==
    /\ text \in Texts \cup ScenarioTexts
    /\ isTarget = FALSE
    /\ frag = <<>>
    /\ tpc = "input"
    /\ InitDom("plain", <<"a", "$", "b", "$">>)
    /\ ChartIdle

\* the collecting loop's tests and the replacement loop's fragment for the node
ScanText ==
    /\ tpc = "input"
    /\ tpc' = "done"
    /\ isTarget' = (text # <<>> /\ PrefilterTest(text))
    /\ \E outs \in OutChoices(MaxOuts) :
          /\ frag' = IF isTarget' THEN BuildFrag(text, 0, outs) ELSE <<>>
          /\ Canonical(outs, Len(Spans(frag')))
    /\ UNCHANGED <<text, domVars, chartVars>>

SpecText == InitText /\ [][ScanText]_vars

-----------------------------------------------------------------------------
(* Vocabulary of the properties *)

NoDollar(s) == \A i \in 1..Len(s) : s[i] # "$"

HasDoubleDollar(s) == \E i \in 0..Len(s) : IsDollar(s, i) /\ IsDollar(s, i + 1)

EndsWithDollar(s) == Len(s) > 0 /\ s[Len(s)] = "$"

\* m[0] of the match a span stands for: the delimited source, delimiters included
Source(s, p) == Slice(s, p.index, p.index + p.len)

\* the literal pieces and the delimited sources of pieces i.., concatenated
RECURSIVE Flatten(_, _, _)
Flatten(s, pieces, i) ==
    IF i > Len(pieces) THEN <<>>
    ELSE (IF pieces[i].kind = "text" THEN pieces[i].value ELSE Source(s, pieces[i]))
         \o Flatten(s, pieces, i + 1)

\* a fragment without the typesetting outcomes
Shape(pieces) ==
    [i \in 1..Len(pieces) |->
        [kind |-> pieces[i].kind,
         value |-> IF pieces[i].kind = "text" THEN pieces[i].value ELSE <<>>,
         isBlock |-> pieces[i].isBlock, expr |-> pieces[i].expr]]

LiteralShape(v) ==
    IF v = <<>> THEN <<>>
    ELSE <<[kind |-> "text", value |-> v, isBlock |-> FALSE, expr |-> <<>>]>>

SpanShape(isBlock, expr) ==
    <<[kind |-> "span", value |-> <<>>, isBlock |-> isBlock, expr |-> expr]>>

\* s is prefix $$expr$$ suffix with a prefix of i and an expr of j characters
IsBlockForm(s, i, j) ==
    /\ j >= 1
    /\ i + j + 4 <= Len(s)
    /\ IsDollar(s, i) /\ IsDollar(s, i + 1)
    /\ IsDollar(s, i + 2 + j) /\ IsDollar(s, i + 3 + j)

\* s is prefix $expr$ suffix with a prefix of i and an expr of j characters
IsInlineForm(s, i, j) ==
    /\ j >= 1
    /\ i + j + 2 <= Len(s)
    /\ IsDollar(s, i)
    /\ IsDollar(s, i + 1 + j)

\* el or one of its ancestors is an editable region or a SCRIPT/STYLE element
RECURSIVE InIgnoredRegion(_, _)
InIgnoredRegion(dom, el) ==
    /\ el # 0
    /\ \/ dom[el].cls
       \/ dom[el].ce
       \/ dom[el].tag \in {"SCRIPT", "STYLE"}
       \/ InIgnoredRegion(dom, dom[el].parent)

\* a is el or an ancestor of el
RECURSIVE IsAncestorOrSelf(_, _, _)
IsAncestorOrSelf(dom, a, el) ==
    /\ el # 0
    /\ (a = el \/ IsAncestorOrSelf(dom, a, dom[el].parent))

\* the elements the host inserted after the content React rendered
HostInserted ==
    {e \in 1..Len(nodes) : e > Len(InitialDom("plain", <<>>))
                           /\ nodes[e].kind = "elem" /\ nodes[e].by = "host"}

HasInserted(k) == Cardinality(HostInserted) >= k

\* the k-th element the host inserted
Inserted(k) == CHOOSE e \in HostInserted : Cardinality({x \in HostInserted : x < e}) = k - 1

\* the text node of a host-inserted element e
TextOf(e) == e + 1

-----------------------------------------------------------------------------
(* Properties of the scan of one text node (SpecText) *)

\* C1: for a text node the routine replaces, the literal text pieces of the
\* fragment and the full delimited source of each match, concatenated in
\* order, are exactly the node's text, and each match sits at the offset the
\* pieces before it add up to: nothing is lost, nothing is duplicated.
C1_FragmentAccountsForText ==
    (tpc = "done" /\ isTarget) =>
        /\ Flatten(text, frag, 1) = text
        /\ \A i \in 1..Len(frag) :
              frag[i].kind = "span" =>
                  frag[i].index = Len(text) - Len(Flatten(text, frag, i))

C1_Witness ==
    /\ tpc = "done" /\ isTarget
    /\ Len(Spans(frag)) >= 2
    /\ frag[1].kind = "text"
    /\ frag[Len(frag)].kind = "text"

\* C2: when the typesetting function throws for a match, the span emitted for
\* it holds exactly the delimited source of the match ($$expr$$ for a block
\* match, $expr$ for an inline one), never nothing, and every match of the
\* text still gets its span.
C2_FallbackIsDelimitedSource ==
    tpc = "done" =>
        /\ \A i \in 1..Len(frag) :
              (frag[i].kind = "span" /\ ~frag[i].ok) =>
                  /\ frag[i].value = Source(text, frag[i])
                  /\ frag[i].value # <<>>
                  /\ Len(frag[i].value) = Len(frag[i].expr) + (IF frag[i].isBlock THEN 4 ELSE 2)
        /\ isTarget => Len(Spans(frag)) = NumMatches(text)

C2_Witness ==
    /\ tpc = "done"
    /\ \E i \in 1..Len(frag) :
          /\ frag[i].kind = "span" /\ ~frag[i].ok /\ frag[i].isBlock
          /\ \E j \in (i + 1)..Len(frag) : frag[j].kind = "span"

\* C8: the text $$x$$ gives exactly one match, in block mode, on x; and in any
\* text a match that starts where a double-dollar form starts is that block
\* match, never an inline match one character further.
C8_BlockFormTakesPrecedence ==
    tpc = "done" =>
        /\ \A c \in Chars \ {"$"} :
              text = <<"$", "$", c, "$", "$">> => Shape(frag) = SpanShape(TRUE, <<c>>)
        /\ \A i \in 1..Len(frag) :
              (frag[i].kind = "span" /\ BlockAt(text, frag[i].index) # NoMatch) =>
                  /\ frag[i].isBlock
                  /\ frag[i].len = BlockAt(text, frag[i].index).len

C8_Witness ==
    /\ tpc = "done"
    /\ text = <<"$", "$", "a", "$", "$">>
    /\ Len(frag) = 1
    /\ frag[1].isBlock

\* C9 as stated: for every text prefix $$expr$$ suffix (any prefix, any
\* non-empty expr, any suffix) the fragment is the literal prefix, a span for
\* expr in block mode, the literal suffix.
C9_AnyBlockFormRendered ==
    tpc = "done" =>
        \A i \in 0..Len(text), j \in 1..Len(text) :
            IsBlockForm(text, i, j) =>
                Shape(frag) = LiteralShape(Slice(text, 0, i))
                              \o SpanShape(TRUE, Slice(text, i + 2, i + 2 + j))
                              \o LiteralShape(Slice(text, i + 4 + j, Len(text)))

\* C9 amended: the same, for a prefix and a suffix without $ and a non-empty
\* expr that holds no $$ and does not end with $.
C9_PlainBlockFormRendered ==
    tpc = "done" =>
        \A i \in 0..Len(text), j \in 1..Len(text) :
            (/\ IsBlockForm(text, i, j)
             /\ NoDollar(Slice(text, 0, i))
             /\ NoDollar(Slice(text, i + 4 + j, Len(text)))
             /\ ~HasDoubleDollar(Slice(text, i + 2, i + 2 + j))
             /\ ~EndsWithDollar(Slice(text, i + 2, i + 2 + j))) =>
                Shape(frag) = LiteralShape(Slice(text, 0, i))
                              \o SpanShape(TRUE, Slice(text, i + 2, i + 2 + j))
                              \o LiteralShape(Slice(text, i + 4 + j, Len(text)))

C9_Witness ==
    /\ tpc = "done"
    /\ text = <<"a", "$", "$", "b", "$", "a", "$", "$">>
    /\ Len(frag) = 2
    /\ frag[2].isBlock

\* C10 as stated: for every text prefix $expr$ suffix with a non-empty expr
\* that holds no $ (any prefix, any suffix), expr is rendered in inline mode.
C10_AnyInlineFormRendered ==
    tpc = "done" =>
        \A i \in 0..Len(text), j \in 1..Len(text) :
            (IsInlineForm(text, i, j) /\ NoDollar(Slice(text, i + 1, i + 1 + j))) =>
                \E k \in 1..Len(frag) :
                    /\ frag[k].kind = "span" /\ ~frag[k].isBlock
                    /\ frag[k].index = i
                    /\ frag[k].expr = Slice(text, i + 1, i + 1 + j)

\* C10 amended: the same, for a prefix that holds no $.
C10_PlainPrefixInlineFormRendered ==
    tpc = "done" =>
        \A i \in 0..Len(text), j \in 1..Len(text) :
            (/\ IsInlineForm(text, i, j)
             /\ NoDollar(Slice(text, i + 1, i + 1 + j))
             /\ NoDollar(Slice(text, 0, i))) =>
                \E k \in 1..Len(frag) :
                    /\ frag[k].kind = "span" /\ ~frag[k].isBlock
                    /\ frag[k].index = i
                    /\ frag[k].expr = Slice(text, i + 1, i + 1 + j)

C10_Witness ==
    /\ tpc = "done"
    /\ text = <<"a", "$", "b", "a", "$", "$", "b">>
    /\ Len(frag) = 3
    /\ frag[2].expr = <<"b", "a">>

\* C11: the spans of a fragment stand for matches in left-to-right order that
\* do not overlap, each is in block mode exactly when the double-dollar form
\* matches at its offset (and then it is that match), and the text
\* `$$a$$ and $b$` gives the block span of a, the literal ` and `, the inline
\* span of b, and nothing else.
C11_MatchesInOrder ==
    tpc = "done" =>
        /\ \A i, j \in 1..Len(frag) :
              (i < j /\ frag[i].kind = "span" /\ frag[j].kind = "span") =>
                  frag[i].index + frag[i].len <= frag[j].index
        /\ \A i \in 1..Len(frag) :
              frag[i].kind = "span" =>
                  /\ frag[i].isBlock <=> BlockAt(text, frag[i].index) # NoMatch
                  /\ frag[i].len = MatchAt(text, frag[i].index).len
                  /\ frag[i].expr = Slice(text, frag[i].index + (IF frag[i].isBlock THEN 2 ELSE 1),
                                          frag[i].index + frag[i].len
                                              - (IF frag[i].isBlock THEN 2 ELSE 1))
        /\ text = BlockThenInline =>
              Shape(frag) = SpanShape(TRUE, <<"a">>)
                            \o LiteralShape(<<" ", "a", "n", "d", " ">>)
                            \o SpanShape(FALSE, <<"b">>)

C11_Witness ==
    /\ tpc = "done"
    /\ text = BlockThenInline
    /\ Len(frag) = 3
    /\ frag[1].isBlock /\ ~frag[3].isBlock

\* the $ at offset p of s has no later $ in s
LastDollar(s, p) == IsDollar(s, p) /\ \A q \in (p + 1)..Len(s) : ~IsDollar(s, q)

\* offset p lies inside a match that starts before p (p is its closing side)
ClosesMatch(pieces, p) ==
    \E i \in 1..Len(pieces) :
        pieces[i].kind = "span" /\ pieces[i].index < p /\ p < pieces[i].index + pieces[i].len

NumDollars(s) == Cardinality({p \in 0..Len(s) : IsDollar(s, p)})

\* C12: a $ with no later $ in the text never opens a match: no span stands
\* for a match starting at it, and, unless it is the closing delimiter of a
\* match that started before it, the text from it to the end is literal, as
\* the end of the last piece of the fragment; a text whose only $ is such a
\* one gives no match at all and is not even replaced.
C12_UnterminatedDollarIsLiteral ==
    tpc = "done" =>
        /\ \A p \in 0..Len(text) :
              LastDollar(text, p) =>
                  /\ \A i \in 1..Len(frag) : frag[i].kind = "span" => frag[i].index # p
                  /\ (isTarget /\ ~ClosesMatch(frag, p)) =>
                        /\ frag # <<>>
                        /\ frag[Len(frag)].kind = "text"
                        /\ LET v == frag[Len(frag)].value
                           IN  /\ Len(v) >= Len(text) - p
                               /\ SubSeq(v, Len(v) - (Len(text) - p) + 1, Len(v))
                                      = Slice(text, p, Len(text))
        /\ NumDollars(text) = 1 => (~isTarget /\ frag = <<>>)

\* a match, then an unterminated $b kept as literal text
C12_Witness ==
    /\ tpc = "done"
    /\ text = <<"$", "a", "$", "a", "$", "b">>
    /\ Len(frag) = 2
    /\ frag[2].kind = "text"
    /\ frag[2].value = <<"a", "$", "b">>

\* textContent of a piece: a text node's value, a fallback span's text, and
\* for a typeset span whatever the markup of katex reads as
PieceTextContent(p) ==
    IF p.kind = "text" \/ ~p.ok THEN p.value ELSE <<"katex">> \o p.expr

RECURSIVE FragTextContent(_, _)
FragTextContent(pieces, i) ==
    IF i > Len(pieces) THEN <<>>
    ELSE PieceTextContent(pieces[i]) \o FragTextContent(pieces, i + 1)

\* textContent at the place of the scanned text node after the scan: that of
\* the fragment when the node was replaced, else the node's own
TextContentAfter == IF isTarget THEN FragTextContent(frag, 1) ELSE text

\* C13: for a text in which the extraction finds no dollar-delimited span, the
\* text content after the scan is the text content before it, character for
\* character, whether the node was left alone or replaced.
C13_NoSpanTextContentKept ==
    (tpc = "done" /\ NumMatches(text) = 0) =>
        /\ TextContentAfter = text
        /\ Spans(frag) = <<>>

\* a text the pre-filter accepts and the extraction does not match: replaced
C13_Witness ==
    /\ tpc = "done"
    /\ text = <<"a", "$", "$", "$", "b">>
    /\ isTarget
    /\ NumMatches(text) = 0
    /\ Len(frag) = 1

\* C16: the text `Revenue grew by $10\%$ this quarter` is a target and gives
\* exactly one match, inline, on `10\%`: the fragment is the literal
\* `Revenue grew by `, the span of the match, the literal ` this quarter`.
C16_RevenueScenario ==
    (tpc = "done" /\ text = RevenueText) =>
        /\ isTarget
        /\ NumMatches(text) = 1
        /\ Shape(frag) =
              LiteralShape(<<"R", "e", "v", "e", "n", "u", "e", " ", "g", "r", "e", "w",
                             " ", "b", "y", " ">>)
              \o SpanShape(FALSE, <<"1", "0", "\\", "%">>)
              \o LiteralShape(<<" ", "t", "h", "i", "s", " ", "q", "u", "a", "r", "t",
                                "e", "r">>)

C16_Witness ==
    /\ tpc = "done"
    /\ text = RevenueText
    /\ Len(frag) = 3
    /\ frag[2].kind = "span" /\ frag[2].ok
    /\ frag[2].index = 16

-----------------------------------------------------------------------------
(* Properties of the component in the DOM (Spec, FairSpec) *)

\* C3: whatever scans ran (the effect's, the callbacks'), no text node whose
\* parent or any ancestor is an editable region or a SCRIPT/STYLE element was
\* replaced, and every such node is still a child of its parent.
C3_IgnoredRegionsUntouched ==
    /\ \A i \in 1..Len(log) : ~InIgnoredRegion(nodes, log[i].parent)
    /\ \A e \in 1..Len(nodes) :
          (nodes[e].kind = "elem" /\ nodes[e].by = "host" /\ InIgnoredRegion(nodes, e)) =>
              \A k \in 1..Len(nodes[e].kids) :
                  /\ nodes[nodes[e].kids[k]].by = "host"
                  /\ nodes[nodes[e].kids[k]].parent = e

\* a text with an expression sits in a plain element inside an ignored
\* element, and the callback for that element's insertion has run
C3_Witness ==
    \E t \in 1..Len(nodes) :
        /\ nodes[t].kind = "text" /\ nodes[t].parent # 0
        /\ NumMatches(nodes[t].value) > 0
        /\ LET p == nodes[t].parent
           IN  /\ ~nodes[p].cls /\ ~nodes[p].ce /\ nodes[p].tag = "DIV"
               /\ InIgnoredRegion(nodes, nodes[p].parent)
               /\ nodes[p].seenBy # {}
               /\ nodes[p].seenBy \subseteq observers
               /\ \A o \in nodes[p].seenBy : pending[o] = <<>>

\* C4, in the form a finite run refutes: the component's own writes do not
\* feed it work that reproduces itself.  No scan rooted at a span the
\* component inserted replaces a text node by a span holding that same text
\* again (a write whose record makes the next callback do the same, without end).
C4_OwnWritesFeedNoWork ==
    \A i \in 1..Len(log) :
        ~(/\ log[i].src = "callback"
          /\ nodes[log[i].root].by = "component"
          /\ \E k \in 1..Len(log[i].pieces) :
                /\ log[i].pieces[k].kind = "span"
                /\ ~log[i].pieces[k].ok
                /\ log[i].pieces[k].value = log[i].text)

\* the k-th inserted element was inserted while an observer was attached, is
\* in no ignored region and its text holds a delimited expression
InsertedWithExpression(k) ==
    /\ HasInserted(k)
    /\ nodes[Inserted(k)].seenBy # {}
    /\ ~InIgnoredRegion(nodes, Inserted(k))
    /\ NumMatches(nodes[TextOf(Inserted(k))].value) > 0

\* its text was replaced by a callback's scan rooted at an inserted element
\* that holds it
TypesetIncrementally(k) ==
    /\ HasInserted(k)
    /\ \E i \in 1..Len(log) :
          /\ log[i].node = TextOf(Inserted(k))
          /\ log[i].src = "callback"
          /\ log[i].root \in HostInserted
          /\ IsAncestorOrSelf(nodes, log[i].root, Inserted(k))
          /\ Len(Spans(log[i].pieces)) > 0

\* its text was replaced by a scan of the whole container
TypesetByFullScan(k) ==
    /\ HasInserted(k)
    /\ \E i \in 1..Len(log) : log[i].node = TextOf(Inserted(k)) /\ log[i].src = "effect"

\* the observer that was attached when it was inserted is no longer attached
ObserverGone(k) ==
    /\ HasInserted(k)
    /\ nodes[Inserted(k)].seenBy \cap observers = {}

\* its text was replaced by a callback's scan rooted at the element itself
TypesetByItsOwnScan(k) ==
    /\ HasInserted(k)
    /\ \E i \in 1..Len(log) :
          /\ log[i].node = TextOf(Inserted(k))
          /\ log[i].src = "callback"
          /\ log[i].root = Inserted(k)

\* C5 as stated, in the form a finite run refutes: whenever such an element
\* was inserted while the observer was attached, its expression gets typeset
\* by a scan rooted at it; so once that observer is gone (no callback of it
\* runs any more) the expression has been typeset that way.
C5_EveryInsertedExpressionTypeset ==
    \A k \in 1..MaxInserts :
        (InsertedWithExpression(k) /\ ObserverGone(k)) => TypesetByItsOwnScan(k)

\* C5 amended: an element whose text holds a delimited expression, inserted
\* under the container after the mount, while the observer is attached and
\* outside any ignored region, is eventually typeset by a callback's scan
\* rooted at an inserted element (itself, or an inserted ancestor handled
\* before it), unless that observer is disconnected first; and it is typeset
\* by a scan of the whole container only after that observer is gone.
C5_InsertedExpressionTypeset ==
    /\ \A k \in 1..MaxInserts :
          [](InsertedWithExpression(k) => <>(TypesetIncrementally(k) \/ ObserverGone(k)))
    /\ [](\A k \in 1..MaxInserts :
            (InsertedWithExpression(k) /\ TypesetByFullScan(k)) => ObserverGone(k))

C5_Witness ==
    /\ InsertedWithExpression(1)
    /\ TypesetIncrementally(1)
    /\ ~ObserverGone(1)
    /\ nodes[TextOf(Inserted(1))].value = <<"$", "$", "a", "$", "$">>

\* C6: after a teardown (unmount, or a change of children) the observer of the
\* previous effect run is disconnected and holds no record, only the observer
\* of the latest run is attached, none after the unmount; and no element
\* inserted while no observer was attached is ever scanned by a callback.
C6_ObservationStopsOnTeardown ==
    /\ phase = "unmounted" => observers = {}
    /\ \A o \in 1..runs : o # cleanup => (o \notin observers /\ pending[o] = <<>>)
    /\ \A i \in 1..Len(log) :
          (log[i].src = "callback" /\ nodes[log[i].root].by = "host") =>
              nodes[log[i].root].seenBy # {}

\* two effect runs, then the unmount, then an insertion nobody observes
C6_Witness ==
    /\ phase = "unmounted"
    /\ runs = MaxRuns
    /\ \E e \in HostInserted : nodes[e].seenBy = {} /\ NumMatches(nodes[TextOf(e)].value) > 0
    /\ \A o \in 1..runs : pending[o] = <<>>

\* C14: a failing set-up of the mutation observation stays inside the
\* component: no error is thrown out of the effect into the host.
C14_SetupFailureConfined == phase # "crashed"

\* host text nodes that are out of the tree without having been replaced
Skipped ==
    {t \in 1..Len(nodes) :
        /\ nodes[t].kind = "text" /\ nodes[t].by = "host" /\ nodes[t].parent = 0
        /\ \A i \in 1..Len(log) : log[i].node # t}

C17_OwnNodesNeverScanRoots ==
    \A i \in 1..Len(scans) :
        scans[i].src = "callback" => nodes[scans[i].root].by = "host"

\* the element nodes of a batch of records, record by record, and within a
\* record added node by added node
RECURSIVE BatchElements(_, _, _)
BatchElements(dom, batch, i) ==
    IF i > Len(batch) THEN <<>>
    ELSE SelectSeq(batch[i].added, LAMBDA a : dom[a].kind = "elem")
         \o BatchElements(dom, batch, i + 1)

RootsOf(calls) == [i \in 1..Len(calls) |-> calls[i].root]

\* C18: a callback scans the element nodes of its batch in the order of the
\* batch (record by record, added node by added node), each once and nothing
\* else, and its scans come after those of every batch delivered before.
C18_BatchOrderKept ==
    [][\A o \in 1..MaxRuns :
          Deliver(o) =>
              /\ Len(scans') >= Len(scans)
              /\ SubSeq(scans', 1, Len(scans)) = scans
              /\ RootsOf(SubSeq(scans', Len(scans) + 1, Len(scans')))
                    = BatchElements(nodes, pending[o], 1)
              /\ \A i \in (Len(scans) + 1)..Len(scans') : scans'[i].src = "callback"]_vars

\* a callback has scanned two elements of one record, the earlier one first
C18_Witness ==
    \E i \in 1..Len(scans) :
        /\ i + 1 <= Len(scans)
        /\ scans[i].src = "callback" /\ scans[i + 1].src = "callback"
        /\ scans[i].depth = scans[i + 1].depth
        /\ scans[i].root # scans[i + 1].root
        /\ nodes[scans[i].root].parent = nodes[scans[i + 1].root].parent
        /\ nodes[scans[i].root].parent # 0
        /\ LET kids == nodes[nodes[scans[i].root].parent].kids
           IN  IndexOf(kids, scans[i].root) < IndexOf(kids, scans[i + 1].root)

\* the text nodes the host inserted bare, not as the text of an element it
\* inserted with them
BareTexts ==
    {t \in 1..Len(nodes) :
        /\ t > Len(InitialDom("plain", <<>>))
        /\ nodes[t].kind = "text" /\ nodes[t].by = "host"
        /\ (nodes[t - 1].kind # "elem" \/ nodes[t - 1].by # "host")}

\* C19: a bare text node inserted under the container is never the root of a
\* scan and is not touched by the callback for its insertion: as long as no
\* scan rooted at the container (the effect's) or at an inserted element above
\* it has replaced it, it is in its parent, with its text, whatever the text.
C19_BareTextNotScanned ==
    \A t \in BareTexts :
        /\ \A i \in 1..Len(scans) : scans[i].root # t
        /\ \A i \in 1..Len(log) :
              log[i].node = t =>
                  \/ log[i].src = "effect" /\ log[i].root = Root
                  \/ /\ log[i].src = "callback"
                     /\ log[i].root \in HostInserted
                     /\ IsAncestorOrSelf(nodes, log[i].root, log[i].parent)
        /\ (\A i \in 1..Len(log) : log[i].node # t) =>
              /\ nodes[t].parent # 0
              /\ \E k \in 1..Len(nodes[nodes[t].parent].kids) :
                    nodes[nodes[t].parent].kids[k] = t
              /\ nodes[t].value \in DomTexts

\* a bare text holding an expression, outside any ignored region, whose
\* insertion the attached observer has been told of and has handled: not replaced
C19_Witness ==
    \E t \in BareTexts :
        /\ NumMatches(nodes[t].value) > 0
        /\ nodes[t].parent # 0
        /\ ~InIgnoredRegion(nodes, nodes[t].parent)
        /\ nodes[t].seenBy # {}
        /\ nodes[t].seenBy \subseteq observers
        /\ \A o \in nodes[t].seenBy : pending[o] = <<>>
        /\ \A i \in 1..Len(log) : log[i].node # t

Without(seq, S) == SelectSeq(seq, LAMBDA x : x \notin S)

\* the number of children of the parent that came before node t
Before(kids, t) == Cardinality({k \in 1..Len(kids) : \A j \in 1..k : kids[j] # t})

\* C20: a replacement keeps the order of the siblings: the text node was a
\* child of its parent; afterwards it is none, the nodes of the fragment
\* stand, in their order, where it stood, and the other children are the same
\* as before, in the same order, those before it before the fragment and
\* those after it after.
C20_SiblingOrderKept ==
    \A i \in 1..Len(log) :
        LET e == log[i]
            made == {e.ids[k] : k \in 1..Len(e.ids)}
            at == Before(e.kidsBefore, e.node)
        IN  /\ at < Len(e.kidsBefore)
            /\ e.kidsBefore[at + 1] = e.node
            /\ Without(e.kidsAfter, {e.node}) = e.kidsAfter
            /\ Without(e.kidsAfter, made) = Without(e.kidsBefore, {e.node})
            /\ Len(e.kidsAfter) = Len(e.kidsBefore) - 1 + Len(e.ids)
            /\ SubSeq(e.kidsAfter, at + 1, at + Len(e.ids)) = e.ids
            /\ SubSeq(e.kidsAfter, 1, at) = SubSeq(e.kidsBefore, 1, at)

\* a text between two elements was replaced by a fragment of several nodes
C20_Witness ==
    \E i \in 1..Len(log) :
        /\ Len(log[i].ids) >= 2
        /\ Len(log[i].kidsBefore) >= 3
        /\ log[i].kidsBefore[1] # log[i].node
        /\ log[i].kidsBefore[Len(log[i].kidsBefore)] # log[i].node

\* C7: a text node in which the extraction finds no match is left in place:
\* every text node a scan replaced held at least one match.
C7_ZeroMatchNodeUntouched ==
    \A i \in 1..Len(log) : NumMatches(log[i].text) > 0


\* the number of fallback spans of the replacements i.. of the history
RECURSIVE ThrownFrom(_, _)
ThrownFrom(history, i) ==
    IF i > Len(history) THEN 0
    ELSE NumThrown(history[i].pieces) + ThrownFrom(history, i + 1)

\* C21: a typesetting failure touches its own match only.  Every replaced
\* text got the fragment it gets when nothing fails, apart from the content
\* of the spans (same literal pieces, same matches, same modes, same order);
\* the fallback spans are as many as the calls that threw, so every match
\* whose call returned is typeset; and the scan pass replaced every target
\* that was still in the tree.
C21_FailureIsPerMatch ==
    /\ \A i \in 1..Len(log) :
          Shape(log[i].pieces) = Shape(BuildFrag(log[i].text, 0, <<>>))
    /\ ThrownFrom(log, 1) <= throws
    /\ Skipped = {} => ThrownFrom(log, 1) = throws
    /\ phase = "mounted" =>
          \A t \in 1..Len(nodes) :
              (nodes[t].kind = "text" /\ nodes[t].by = "host" /\ nodes[t].parent # 0) =>
                  ~IsTargetNode(nodes, t)

\* in one scan pass the first match of a text failed, the second match of the
\* same text and the match of another text were typeset
C21_Witness ==
    /\ phase = "mounted"
    /\ \E i, j \in 1..Len(log) :
          /\ i # j
          /\ log[i].text = <<"$", "a", "$", "$", "b", "$">>
          /\ Len(log[i].pieces) = 2
          /\ ~log[i].pieces[1].ok /\ log[i].pieces[2].ok
          /\ \E k \in 1..Len(log[j].pieces) :
                log[j].pieces[k].kind = "span" /\ log[j].pieces[k].ok


\* C22: every expression handed to the typesetting function is a non-empty
\* string; one matched by the single-dollar form holds no $; and the texts
\* `$$` and `$$$$` give no match.
C22_ExpressionsNonEmpty ==
    tpc = "done" =>
        /\ \A i \in 1..Len(frag) :
              frag[i].kind = "span" =>
                  /\ frag[i].expr # <<>>
                  /\ frag[i].expr # Undef
                  /\ ~frag[i].isBlock => NoDollar(frag[i].expr)
        /\ text \in {<<"$", "$">>, <<"$", "$", "$", "$">>} =>
              /\ NumMatches(text) = 0
              /\ Spans(frag) = <<>>

\* the text $$$$ went through the extraction (the pre-filter lets it pass)
\* and gave one literal piece
C22_Witness ==
    /\ tpc = "done"
    /\ text = <<"$", "$", "$", "$">>
    /\ isTarget
    /\ Len(frag) = 1
    /\ frag[1].kind = "text"


\* C23: a scan a callback runs for an inserted element replaces only text
\* nodes below that element, and like the initial scan it replaces only texts
\* that pass the pre-filter and have no ignored element above them, the
\* elements above the scan's root included.
C23_CallbackScanStaysInSubtree ==
    \A i \in 1..Len(log) :
        log[i].src = "callback" =>
            /\ nodes[log[i].root].kind = "elem"
            /\ IsAncestorOrSelf(nodes, log[i].root, log[i].parent)
            /\ ~InIgnoredRegion(nodes, log[i].parent)
            /\ log[i].text # <<>>
            /\ PrefilterTest(log[i].text)

\* the scan of an inserted element replaced its text, and a text outside the
\* element that qualifies as a target (a fallback text of the first scan) is
\* still there, never replaced
C23_Witness ==
    \E i \in 1..Len(log) :
        /\ log[i].src = "callback"
        /\ log[i].root \in HostInserted
        /\ \E t \in 1..Len(nodes) :
              /\ nodes[t].kind = "text" /\ nodes[t].parent # 0
              /\ IsTargetNode(nodes, t)
              /\ ~IsAncestorOrSelf(nodes, log[i].root, t)
              /\ \A j \in 1..Len(log) : log[j].node # t


\* the container's content at the start of the first scan (the kind of the
\* first element and the texts left out), and its text nodes in document order
StartDom == ThreeTexts("plain", <<>>, <<>>, <<>>)

\* (node 3 in the first element, node 7 in the container, node 5 in the
\* second element)
DocumentOrder == <<3, 7, 5>>

Replacements == [i \in 1..Len(log) |-> log[i].node]

WasReplaced(t) == \E i \in 1..Len(log) : log[i].node = t

C25_ScanIsIdempotent ==
    \A i \in 1..Len(log) : nodes[log[i].node].by = "host"


\* the record of the insertion of element e waits in the queue of observer o
InQueue(o, e) ==
    /\ o \in DOMAIN pending
    /\ \E j \in 1..Len(pending[o]) :
          \E a \in 1..Len(pending[o][j].added) : pending[o][j].added[a] = e

\* C26: no inserted expression is lost across a change of children.  While
\* the component is mounted exactly the observer of the latest effect run is
\* attached (there is no moment with a scan done and no observer yet); an
\* element holding an expression, inserted outside ignored regions while an
\* observer was attached, has been typeset, or its record waits at that
\* observer, or that observer was disconnected and no effect has run since;
\* and once an effect has run after its insertion it has been typeset, by the
\* full scan when its record had not been delivered.
C26_NoInsertionLostAcrossChange ==
    /\ phase = "mounted" => (observers = {runs} /\ cleanup = runs)
    /\ \A k \in 1..MaxInserts :
          InsertedWithExpression(k) =>
              LET e == Inserted(k)
                  seen == nodes[e].seenBy
              IN  /\ \/ WasReplaced(TextOf(e))
                     \/ \E o \in seen \cap observers : InQueue(o, e)
                     \/ seen \cap observers = {} /\ \A o \in seen : runs = o
                  /\ (\E o \in seen : runs > o) => WasReplaced(TextOf(e))
                  /\ (~TypesetIncrementally(k) /\ \E o \in seen : runs > o) =>
                        TypesetByFullScan(k)

\* an element was inserted, children changed before its record was delivered,
\* and the full scan of the new effect run typeset its expression
C26_Witness ==
    /\ InsertedWithExpression(1)
    /\ nodes[Inserted(1)].seenBy = {1}
    /\ runs = 2
    /\ phase = "mounted"
    /\ TypesetByFullScan(1)
    /\ \A i \in 1..Len(scans) : scans[i].src = "effect"


\* C27: at most one observer created by the component is attached to the
\* container at any moment, the one of the latest effect run; after the
\* unmount there is none.
C27_AtMostOneObserver ==
    /\ Cardinality(observers) <= 1
    /\ observers \subseteq {runs} \ {0}
    /\ phase = "unmounted" => observers = {}
    /\ phase = "mounted" => Cardinality(observers) = 1

\* after a re-run of the effect, only the second observer is attached
C27_Witness ==
    /\ phase = "mounted"
    /\ runs = 2
    /\ observers = {2}
    /\ inserts = 1


\* C28: the pre-filter hides no match: a text in which the extraction finds
\* a match passes the pre-filter, so its node is a target and its fragment
\* holds a span for each match.
C28_PrefilterHidesNoMatch ==
    (tpc = "done" /\ NumMatches(text) > 0) =>
        /\ PrefilterTest(text)
        /\ isTarget
        /\ Len(Spans(frag)) = NumMatches(text)

\* the shortest text with a match, a single-dollar one
C28_Witness ==
    /\ tpc = "done"
    /\ text = <<"$", "b", "$">>
    /\ isTarget
    /\ Len(frag) = 1
    /\ frag[1].kind = "span"


\* C29: two $ of a text with one or more characters between them, none a $,
\* always give a match, whatever the characters are: the node is a target and
\* its fragment holds a span; `cost $5 and $10` becomes the literal `cost `,
\* the inline span of `5 and `, the literal `10`, and an expression may run
\* over a line break.
C29_DollarPairAlwaysMatches ==
    tpc = "done" =>
        /\ (\E i \in 0..Len(text), j \in 1..Len(text) :
                IsInlineForm(text, i, j) /\ NoDollar(Slice(text, i + 1, i + 1 + j))) =>
              /\ isTarget
              /\ Len(Spans(frag)) >= 1
        /\ text = CostText =>
              Shape(frag) = LiteralShape(<<"c", "o", "s", "t", " ">>)
                            \o SpanShape(FALSE, <<"5", " ", "a", "n", "d", " ">>)
                            \o LiteralShape(<<"1", "0">>)
        /\ text = TwoLines => Shape(frag) = SpanShape(FALSE, <<"a", "\n", "b">>)

C29_Witness ==
    /\ tpc = "done"
    /\ text = CostText
    /\ Len(frag) = 3
    /\ frag[2].kind = "span" /\ ~frag[2].isBlock
    /\ frag[3].value = <<"1", "0">>


\* the values the rows of d hold
ValuesOf(d) ==
    UNION {{d[i].revenuePerCustomer, d[i].monthlyRevenue, d[i].revenueGrowth} \ {Nullish} :
              i \in 1..Len(d)}

NiceValues == {10, 20, 50, 100, 200, 500, 1000}

\* C30: getBarChartMaxY returns 100 for data that is no array or is empty;
\* for rows of non-negative values it returns a value that is at least every
\* value of the rows, the smallest of 10, 20, 50, 100, 200, 500, 1000 that
\* reaches their maximum, or, when the maximum is above 1000, the maximum
\* rounded up to a multiple of 1000.
C30_BarChartMaxY ==
    cpc = "done" =>
        /\ (~data.isArray \/ data.rows = <<>>) => maxY = 100
        /\ (data.isArray /\ data.rows # <<>>) =>
              /\ \A v \in ValuesOf(data.rows) : maxY >= v
              /\ (\A v \in ValuesOf(data.rows) : v <= 1000) =>
                    /\ maxY \in NiceValues
                    /\ \A n \in NiceValues :
                          (\A v \in ValuesOf(data.rows) : n >= v) => maxY <= n
              /\ (\E v \in ValuesOf(data.rows) : v > 1000) =>
                    /\ maxY % 1000 = 0
                    /\ \E v \in ValuesOf(data.rows) : maxY - v < 1000

\* two rows, the largest value in the second one, on a step of the ladder
C30_Witness ==
    /\ cpc = "done"
    /\ data.isArray
    /\ Len(data.rows) = 2
    /\ data.rows[1].revenueGrowth = Nullish
    /\ data.rows[1].monthlyRevenue = 51
    /\ data.rows[2].monthlyRevenue = 200
    /\ data.rows[2].revenueGrowth = Nullish
    /\ maxY = 200

=============================================================================
